---------------------------- MODULE Spec2Model ----------------------------
(***************************************************************************)
(* Field extraction from OCR text of Japanese tickets (src/app.py):        *)
(* parse_datetime / _collect_dates, parse_venue, parse_title and the       *)
(* /api/ocr handler that runs them.                                        *)
(*                                                                         *)
(* A text is a sequence of Unicode code points (Python str), 1-indexed.    *)
(* Python's None is the value None below, which is no string.              *)
(***************************************************************************)
EXTENDS Integers, Sequences, FiniteSets, TLC

VARIABLES
    text,        \* the raw text the extractors scan
    pc,          \* position of the running function
    rgx,         \* _collect_dates: index into DATE_REGEXES (outer for loop)
    pos,         \* _collect_dates: where finditer resumes (1-indexed)
    out,         \* _collect_dates: the list of (date, index) collected so far
    event_date,  \* parse_datetime: the returned "event_date" value
    vi,          \* parse_venue: index into VENUE_WORDS (the for loop)
    venue,       \* parse_venue: the returned value
    lines,       \* parse_title: the stripped, non-empty lines
    start,       \* parse_title: index of the anchor line (0-based), or -1
    i,           \* parse_title: the walk's line index (0-based)
    parts,       \* parse_title: the lines accepted into the title
    title,       \* parse_title: the returned value
    request,     \* api_ocr: the request and its environment
    response     \* api_ocr: the JSON body and status returned

vars ==
    <<text, pc, rgx, pos, out, event_date, vi, venue, lines, start, i, parts,
      title, request, response>>

dateVars == <<rgx, pos, out, event_date>>
venueVars == <<vi, venue>>
titleVars == <<lines, start, i, parts, title>>
apiVars == <<request, response>>

---------------------------------------------------------------------------
(* Values and character classes *)

\* Python None: a tuple that is no text (-1 is no code point).
None == << -1 >>

\* _to_int's default=None, and the y = None branch of _collect_dates.
NoneInt == -1

\* The request and response variables before any request is made.
NoRequest == [mode |-> "none"]
NoResponse == [status |-> 0]

\* What indexing past the end of the text stands for (no character).
EOT == -1

At(t, k) == IF k >= 1 /\ k <= Len(t) THEN t[k] ELSE EOT

\* \d of a str pattern: Unicode decimal digits; ASCII 0-9 and fullwidth
\* 0-9 are the ones modelled.
IsDigit(c) == c \in 48..57 \/ c \in 65296..65305

DigitVal(c) == IF c \in 48..57 THEN c - 48 ELSE c - 65296

\* \s of a str pattern, which is also str.isspace() (what str.strip trims).
WhiteSpace ==
    {9, 10, 11, 12, 13, 28, 29, 30, 31, 32, 133, 160, 5760} \cup (8192..8202)
        \cup {8232, 8233, 8239, 8287, 12288}

IsSpace(c) == c \in WhiteSpace

\* \s* : greedy; the index of the first non-space at or after k.
RECURSIVE SkipSpaces(_, _)
SkipSpaces(t, k) == IF IsSpace(At(t, k)) THEN SkipSpaces(t, k + 1) ELSE k

RECURSIVE DigitsValue(_)
DigitsValue(s) ==
    IF s = <<>> THEN 0
    ELSE 10 * DigitsValue(SubSeq(s, 1, Len(s) - 1)) + DigitVal(s[Len(s)])

\* _to_int(s, default): int(s), or default when int raises (s is None).
ToInt(s, default) == IF s = <<>> THEN default ELSE DigitsValue(s)

\* The slice t[a..b-1] (Python t[a-1:b-1]).
Slice(t, a, b) == SubSeq(t, a, b - 1)

---------------------------------------------------------------------------
(* DATE_REGEXES *)

\* A failed match. An absent group (gd.get(..) is None) is <<>>.
NoMatch ==
    [ok |-> FALSE, start |-> 0, end |-> 0,
     y |-> <<>>, y2 |-> <<>>, m |-> <<>>, d |-> <<>>]

\* [./年-] and [./月-]
SepYM == {46, 47, 24180, 45}
SepMD == {46, 47, 26376, 45}

\* \d{1,2} at the end of a pattern: greedy, nothing follows to backtrack for.
GreedyLen(t, k) == IF IsDigit(At(t, k + 1)) THEN 2 ELSE 1

\* DATE_REGEXES[0] from the month group on, the month taking mlen digits.
MatchA_month(t, s, j2, mlen) ==
    LET j3 == SkipSpaces(t, j2 + mlen)
        j4 == SkipSpaces(t, j3 + 1)
        e  == j4 + GreedyLen(t, j4)
    IN  IF /\ \A k \in 0..(mlen - 1) : IsDigit(At(t, j2 + k))
           /\ At(t, j3) \in SepMD
           /\ IsDigit(At(t, j4))
        THEN [ok |-> TRUE, start |-> s, end |-> e,
              y |-> Slice(t, s, s + 4), y2 |-> <<>>,
              m |-> Slice(t, j2, j2 + mlen), d |-> Slice(t, j4, e)]
        ELSE NoMatch

\* (?P<y>20\d{2})\s*[./年-]\s*(?P<m>\d{1,2})\s*(?:[./月-])\s*(?P<d>\d{1,2})
MatchA(t, s) ==
    LET j1 == SkipSpaces(t, s + 4)
        j2 == SkipSpaces(t, j1 + 1)
        two == MatchA_month(t, s, j2, 2)
    IN  IF /\ At(t, s) = 50 /\ At(t, s + 1) = 48
           /\ IsDigit(At(t, s + 2)) /\ IsDigit(At(t, s + 3))
           /\ At(t, j1) \in SepYM
        THEN IF two.ok THEN two ELSE MatchA_month(t, s, j2, 1)
        ELSE NoMatch

\* The index of the first ")" at or after k, or 0 when there is none.
RECURSIVE FindCloseParen(_, _)
FindCloseParen(t, k) ==
    IF k > Len(t) THEN 0
    ELSE IF t[k] = 41 THEN k ELSE FindCloseParen(t, k + 1)

\* DATE_REGEXES[1] from \s*(?P<y>20\d{2})\s*年? on, starting at p.
MatchB_year(t, s, mm, dd, p) ==
    LET j4 == SkipSpaces(t, p)
        j5 == SkipSpaces(t, j4 + 4)
        e  == IF At(t, j5) = 24180 THEN j5 + 1 ELSE j5
    IN  IF /\ At(t, j4) = 50 /\ At(t, j4 + 1) = 48
           /\ IsDigit(At(t, j4 + 2)) /\ IsDigit(At(t, j4 + 3))
        THEN [ok |-> TRUE, start |-> s, end |-> e,
              y |-> Slice(t, j4, j4 + 4), y2 |-> <<>>, m |-> mm, d |-> dd]
        ELSE NoMatch

\* DATE_REGEXES[1] from the day group on, the day taking dlen digits.
\* (?:\([^)]+\))? is tried first with the group, then without it.
MatchB_day(t, s, mm, j2, dlen) ==
    LET j3 == SkipSpaces(t, j2 + dlen)
        dd == Slice(t, j2, j2 + dlen)
        cl == FindCloseParen(t, j3 + 2)
        withParen ==
            IF At(t, j3 + 1) = 40 /\ cl >= j3 + 3
            THEN MatchB_year(t, s, mm, dd, cl + 1)
            ELSE NoMatch
    IN  IF /\ \A k \in 0..(dlen - 1) : IsDigit(At(t, j2 + k))
           /\ At(t, j3) = 26085
        THEN IF withParen.ok THEN withParen
             ELSE MatchB_year(t, s, mm, dd, j3 + 1)
        ELSE NoMatch

\* DATE_REGEXES[1] with the month taking mlen digits.
MatchB_month(t, s, mlen) ==
    LET j1 == SkipSpaces(t, s + mlen)
        j2 == SkipSpaces(t, j1 + 1)
        mm == Slice(t, s, s + mlen)
        two == MatchB_day(t, s, mm, j2, 2)
    IN  IF /\ \A k \in 0..(mlen - 1) : IsDigit(At(t, s + k))
           /\ At(t, j1) = 26376
        THEN IF two.ok THEN two ELSE MatchB_day(t, s, mm, j2, 1)
        ELSE NoMatch

\* (?P<m>\d{1,2})\s*月\s*(?P<d>\d{1,2})\s*日(?:\([^)]+\))?\s*(?P<y>20\d{2})\s*年?
MatchB(t, s) ==
    LET two == MatchB_month(t, s, 2)
    IN  IF two.ok THEN two ELSE MatchB_month(t, s, 1)

\* DATE_REGEXES[2] from the month group on, the month taking mlen digits.
MatchC_month(t, s, j2, mlen) ==
    LET j3 == SkipSpaces(t, j2 + mlen)
        j4 == SkipSpaces(t, j3 + 1)
        e  == j4 + GreedyLen(t, j4)
    IN  IF /\ \A k \in 0..(mlen - 1) : IsDigit(At(t, j2 + k))
           /\ At(t, j3) = 26376
           /\ IsDigit(At(t, j4))
        THEN [ok |-> TRUE, start |-> s, end |-> e,
              y |-> <<>>, y2 |-> Slice(t, s, s + 2),
              m |-> Slice(t, j2, j2 + mlen), d |-> Slice(t, j4, e)]
        ELSE NoMatch

\* (?P<y2>\d{2})\s*年\s*(?P<m>\d{1,2})\s*月\s*(?P<d>\d{1,2})
MatchC(t, s) ==
    LET j1 == SkipSpaces(t, s + 2)
        j2 == SkipSpaces(t, j1 + 1)
        two == MatchC_month(t, s, j2, 2)
    IN  IF /\ IsDigit(At(t, s)) /\ IsDigit(At(t, s + 1))
           /\ At(t, j1) = 24180
        THEN IF two.ok THEN two ELSE MatchC_month(t, s, j2, 1)
        ELSE NoMatch

\* The number of patterns in DATE_REGEXES.
NumDateRegexes == 3

\* rgx.match at position s, for rgx = DATE_REGEXES[r - 1].
MatchAt(r, t, s) ==
    CASE r = 1 -> MatchA(t, s)
      [] r = 2 -> MatchB(t, s)
      [] OTHER -> MatchC(t, s)

\* One step of rgx.finditer(text): the leftmost match starting at or after
\* p, or NoMatch when the iterator is exhausted.
RECURSIVE FindFrom(_, _, _)
FindFrom(r, t, p) ==
    IF p > Len(t) THEN NoMatch
    ELSE LET m == MatchAt(r, t, p)
         IN  IF m.ok THEN m ELSE FindFrom(r, t, p + 1)

---------------------------------------------------------------------------
(* datetime.date *)

IsLeap(y) == (y % 4 = 0) /\ ((y % 100 # 0) \/ (y % 400 = 0))

DaysInMonth(y, m) ==
    IF m = 2 THEN (IF IsLeap(y) THEN 29 ELSE 28)
    ELSE IF m \in {4, 6, 9, 11} THEN 30 ELSE 31

\* date(y, M, d) does not raise ValueError.
DateValid(y, m, d) ==
    /\ y >= 1 /\ y <= 9999
    /\ m >= 1 /\ m <= 12
    /\ d >= 1 /\ d <= DaysInMonth(y, m)

\* date.__lt__ / __le__ on (year, month, day).
DateLess(a, b) ==
    \/ a[1] < b[1]
    \/ a[1] = b[1] /\ a[2] < b[2]
    \/ a[1] = b[1] /\ a[2] = b[2] /\ a[3] < b[3]

\* n as exactly w ASCII digits, zero-padded (%Y, %m, %d of strftime).
RECURSIVE Pad(_, _)
Pad(n, w) == IF w = 0 THEN <<>> ELSE Pad(n \div 10, w - 1) \o <<48 + (n % 10)>>

\* d.strftime("%Y-%m-%d")
Strftime(dt) == Pad(dt[1], 4) \o <<45>> \o Pad(dt[2], 2) \o <<45>> \o Pad(dt[3], 2)


---------------------------------------------------------------------------
(* _collect_dates and parse_datetime *)

\* The year of a match: group y, else 2000 + group y2, else None.
MatchYear(m) ==
    IF m.y # <<>> THEN ToInt(m.y, NoneInt)
    ELSE IF m.y2 # <<>> THEN 2000 + ToInt(m.y2, 0)
    ELSE NoneInt

\* Python truthiness of an int-or-None: neither None nor 0.
Truthy(n) == n # NoneInt /\ n # 0

\* The body of the inner for loop for one match m: the list after it.
\* A match whose groups are no calendar date (ValueError) appends nothing.
CollectMatch(acc, m) ==
    LET y == MatchYear(m)
        M == ToInt(m.m, NoneInt)
        d == ToInt(m.d, NoneInt)
    IN  IF Truthy(y) /\ Truthy(M) /\ Truthy(d) /\ DateValid(y, M, d)
        THEN Append(acc, [date |-> <<y, M, d>>, index |-> m.start - 1])
        ELSE acc

\* The state of the two nested loops after construction of out = [].
CollectInit == [rgx |-> 1, pos |-> 1, out |-> <<>>]

\* Faulty variant of CollectStep (sensitivity of C9): break instead of
\* continue, an invalid match ends the scan of the current pattern.
CollectStepBreak(t, st) ==
    LET m == FindFrom(st.rgx, t, st.pos)
    IN  IF m.ok /\ CollectMatch(st.out, m) # st.out
        THEN [rgx |-> st.rgx, pos |-> m.end, out |-> CollectMatch(st.out, m)]
        ELSE [rgx |-> st.rgx + 1, pos |-> 1, out |-> st.out]

\* One iteration: the next match of the current pattern, or, when its
\* iterator is exhausted, the next pattern.
CollectStep(t, st) ==
    LET m == FindFrom(st.rgx, t, st.pos)
    IN  IF m.ok
        THEN [rgx |-> st.rgx, pos |-> m.end, out |-> CollectMatch(st.out, m)]
        ELSE [rgx |-> st.rgx + 1, pos |-> 1, out |-> st.out]

RECURSIVE CollectRun(_, _)
CollectRun(t, st) ==
    IF st.rgx > NumDateRegexes THEN st.out ELSE CollectRun(t, CollectStep(t, st))

\* _collect_dates(text)
collect_dates(t) == CollectRun(t, CollectInit)

\* Faulty variant of MaxDate (sensitivity of C1): the first date collected
\* instead of the latest.
FirstDate(dates) == IF dates = <<>> THEN None ELSE Head(dates).date

\* max((d for d,_ in dates), default=None): the first maximal element.
RECURSIVE MaxDate(_)
MaxDate(dates) ==
    IF dates = <<>> THEN None
    ELSE LET rest == MaxDate(Tail(dates))
             d == Head(dates).date
         IN  IF rest = None \/ ~DateLess(d, rest) THEN d ELSE rest

\* The "event_date" value parse_datetime returns for the collected list.
EventDateOf(dates) ==
    LET best == MaxDate(dates)
    IN  IF best = None THEN None ELSE Strftime(best)

\* parse_datetime(text)["event_date"]
parse_datetime(t) == EventDateOf(collect_dates(t))

---------------------------------------------------------------------------
(* Inputs of the date extractor: texts made of ticket fragments *)

DateFrags ==
    << <<50, 48, 50, 53, 24180, 56, 26376, 49, 48, 26085>>,        \* "2025年8月10日"
       <<50, 48, 50, 53, 47, 55, 47, 49>>,                          \* "2025/7/1"
       <<56, 26376, 49, 48, 26085, 40, 26085, 41, 50, 48, 50, 53, 24180>>,
                                                                    \* "8月10日(日)2025年"
       <<50, 53, 24180, 57, 26376, 51, 26085>>,                     \* "25年9月3日"
       <<50, 48, 50, 53, 46, 50, 46, 51, 48>>,                      \* "2025.2.30"
       <<50, 52, 24180, 49, 51, 26376, 49, 26085>>,                 \* "24年13月1日"
       <<50, 48, 50, 54, 45, 48, 45, 53>>,                          \* "2026-0-5"
       <<50, 48, 50, 52, 47, 50, 47, 50, 57>>,                      \* "2024/2/29"
       <<10>>,                                                      \* "\n"
       <<30330, 21048, 32>> >>                                      \* "発券 "

\* How many fragments a text is made of, at most.
MaxDateFrags == 3

RECURSIVE Concat(_, _)
Concat(frags, ix) ==
    IF ix = <<>> THEN <<>> ELSE frags[Head(ix)] \o Concat(frags, Tail(ix))

TextsOf(frags, n) ==
    { Concat(frags, ix) : ix \in UNION { [1..k -> 1..Len(frags)] : k \in 0..n } }

DateTexts == TextsOf(DateFrags, MaxDateFrags)

InitDate ==
    /\ text \in DateTexts
    /\ pc = "collect"
    /\ rgx = CollectInit.rgx /\ pos = CollectInit.pos /\ out = CollectInit.out
    /\ event_date = None
    /\ vi = 1 /\ venue = None
    /\ lines = <<>> /\ start = -1 /\ i = 0 /\ parts = <<>> /\ title = None
    /\ request = NoRequest /\ response = NoResponse

CollectState == [rgx |-> rgx, pos |-> pos, out |-> out]

\* for m in rgx.finditer(text): one match handled.
DateMatch ==
    /\ pc = "collect" /\ rgx <= NumDateRegexes
    /\ FindFrom(rgx, text, pos).ok
    /\ \E st \in {CollectStep(text, CollectState)} :
           rgx' = st.rgx /\ pos' = st.pos /\ out' = st.out
    /\ UNCHANGED <<text, pc, event_date, venueVars, titleVars, apiVars>>

\* for rgx in DATE_REGEXES: the iterator is exhausted, on to the next one.
DateNextPattern ==
    /\ pc = "collect" /\ rgx <= NumDateRegexes
    /\ ~FindFrom(rgx, text, pos).ok
    /\ \E st \in {CollectStep(text, CollectState)} :
           rgx' = st.rgx /\ pos' = st.pos /\ out' = st.out
    /\ UNCHANGED <<text, pc, event_date, venueVars, titleVars, apiVars>>

\* _collect_dates returns; parse_datetime takes the maximum and formats it.
ParseDatetimeReturn ==
    /\ pc = "collect" /\ rgx > NumDateRegexes
    /\ event_date' = EventDateOf(out)
    /\ pc' = "done"
    /\ UNCHANGED <<text, rgx, pos, out, venueVars, titleVars, apiVars>>

NextDate == DateMatch \/ DateNextPattern \/ ParseDatetimeReturn

SpecDate == InitDate /\ [][NextDate]_vars


---------------------------------------------------------------------------
(* parse_venue *)

\* VENUE_WORDS, in its declared order
VENUE_WORDS ==
    << <<26085, 26412, 27494, 36947, 39208>>,   \* 1: "日本武道館"
       <<26481, 20140, 24040, 34507>>,   \* 2: "東京巨蛋"
       <<20195, 20195, 26408, 31532, 19968, 39636, 32946, 39208>>,   \* 3: "代代木第一體育館"
       <<27243, 28657, 20307, 32946, 39208>>,   \* 4: "橫濱体育館"
       <<22823, 38442, 22478, 72, 97, 108, 108>>,   \* 5: "大阪城Hall"
       <<26481, 24613, 12471, 12450, 12479, 12540, 12458, 12540, 12502>>,   \* 6: "東急シアターオーブ"
       <<26481, 20140, 22269, 38555, 12501, 12457, 12540, 12521, 12512>>,   \* 7: "東京国際フォーラム"
       <<26481, 20140, 12489, 12540, 12512, 12471, 12486, 12451, 12507, 12540, 12523>> >>   \* 8: "東京ドームシティホール"

\* v in text : v occurs as a substring of t.
Contains(v, t) ==
    \E k \in 1..(Len(t) - Len(v) + 1) : SubSeq(t, k, k + Len(v) - 1) = v

\* The loop state on entry: the first catalog entry, nothing returned.
VenueInit == [vi |-> 1, ret |-> FALSE, venue |-> None]

\* Faulty variant of VenueStep (sensitivity of C2): no return on the first
\* hit, so the last catalog entry found in the text wins.
VenueStepLastWins(t, st) ==
    IF Contains(VENUE_WORDS[st.vi], t)
    THEN [vi |-> st.vi + 1, ret |-> FALSE, venue |-> VENUE_WORDS[st.vi]]
    ELSE [vi |-> st.vi + 1, ret |-> FALSE, venue |-> st.venue]

\* One iteration of for v in VENUE_WORDS: return v when it is in the text.
VenueStep(t, st) ==
    IF Contains(VENUE_WORDS[st.vi], t)
    THEN [vi |-> st.vi, ret |-> TRUE, venue |-> VENUE_WORDS[st.vi]]
    ELSE [vi |-> st.vi + 1, ret |-> FALSE, venue |-> st.venue]

RECURSIVE VenueRun(_, _)
VenueRun(t, st) ==
    IF st.ret \/ st.vi > Len(VENUE_WORDS) THEN st.venue
    ELSE VenueRun(t, VenueStep(t, st))

\* parse_venue(text)
parse_venue(t) == VenueRun(t, VenueInit)

VenueFrags ==
    << VENUE_WORDS[1],                                   \* "日本武道館"
       VENUE_WORDS[2],                                   \* "東京巨蛋"
       VENUE_WORDS[5],                                   \* "大阪城Hall"
       VENUE_WORDS[8],                                   \* "東京ドームシティホール"
       <<26481, 20140, 12489, 12540, 12512>>,            \* "東京ドーム"
       <<22823, 38442, 22478, 104, 97, 108, 108>>,       \* "大阪城hall"
       <<10>>,                                           \* "\n"
       <<20250, 22580, 58>> >>                           \* "会場:"

\* How many fragments a text is made of, at most.
MaxVenueFrags == 3

VenueTexts == TextsOf(VenueFrags, MaxVenueFrags)

InitVenue ==
    /\ text \in VenueTexts
    /\ pc = "venue"
    /\ vi = VenueInit.vi /\ venue = VenueInit.venue
    /\ rgx = 1 /\ pos = 1 /\ out = <<>> /\ event_date = None
    /\ lines = <<>> /\ start = -1 /\ i = 0 /\ parts = <<>> /\ title = None
    /\ request = NoRequest /\ response = NoResponse

VenueState == [vi |-> vi, ret |-> FALSE, venue |-> venue]

\* if v in text: return v
VenueMatched ==
    /\ pc = "venue" /\ vi <= Len(VENUE_WORDS)
    /\ \E st \in {VenueStep(text, VenueState)} :
           /\ st.ret
           /\ vi' = st.vi /\ venue' = st.venue
    /\ pc' = "done"
    /\ UNCHANGED <<text, dateVars, titleVars, apiVars>>

\* v is not in the text: the loop goes on to the next entry.
VenueNotMatched ==
    /\ pc = "venue" /\ vi <= Len(VENUE_WORDS)
    /\ \E st \in {VenueStep(text, VenueState)} :
           /\ ~st.ret
           /\ vi' = st.vi /\ venue' = st.venue
    /\ UNCHANGED <<text, pc, dateVars, titleVars, apiVars>>

\* The loop ends without a return: return None.
VenueReturnNone ==
    /\ pc = "venue" /\ vi > Len(VENUE_WORDS)
    /\ pc' = "done"
    /\ UNCHANGED <<text, vi, venue, dateVars, titleVars, apiVars>>

NextVenue == VenueMatched \/ VenueNotMatched \/ VenueReturnNone

SpecVenue == InitVenue /\ [][NextVenue]_vars


---------------------------------------------------------------------------
(* parse_title *)

\* TITLE_KEYWORDS
TITLE_KEYWORDS ==
    << <<12511, 12517, 12540, 12472, 12459, 12523>>,   \* 1: "ミュージカル"
       <<12467, 12531, 12469, 12540, 12488>>,   \* 2: "コンサート"
       <<12521, 12452, 12502>>,   \* 3: "ライブ"
       <<20844, 28436>>,   \* 4: "公演"
       <<12524, 12539, 12511, 12476, 12521, 12502, 12523>>,   \* 5: "レ・ミゼラブル"
       <<76, 69, 83, 32, 77, 73, 83, 69, 82, 65, 66, 76, 69, 83>>,   \* 6: "LES MISERABLES"
       <<87, 79, 82, 76, 68, 32, 84, 79, 85, 82>>,   \* 7: "WORLD TOUR"
       <<12527, 12540, 12523, 12489, 12484, 12450, 12540>>,   \* 8: "ワールドツアー"
       <<12473, 12506, 12463, 12479, 12461, 12517, 12521, 12540>>,   \* 9: "スペクタキュラー"
       <<12473, 12506, 12463, 12479, 12463, 12523>> >>   \* 10: "スペクタクル"

\* TITLE_STOP_PAT: its alternatives, HP[:：], https?:// and TEL[:：] written out
TITLE_STOP_ALTS ==
    << <<20027, 20652>>,   \* 1: "主催"
       <<25307, 32856>>,   \* 2: "招聘"
       <<35069, 20316>>,   \* 3: "製作"
       <<21046, 20316>>,   \* 4: "制作"
       <<20849, 21516, 21046, 20316>>,   \* 5: "共同制作"
       <<20225, 30011>>,   \* 6: "企画"
       <<21332, 36059>>,   \* 7: "協賛"
       <<21332, 21147>>,   \* 8: "協力"
       <<12362, 21839, 12356, 21512, 12431, 12379>>,   \* 9: "お問い合わせ"
       <<12362, 21839, 21512, 12379>>,   \* 10: "お問合せ"
       <<21839, 21512, 12379>>,   \* 11: "問合せ"
       <<72, 80, 58>>,   \* 12: "HP:"
       <<72, 80, 65306>>,   \* 13: "HP："
       <<104, 116, 116, 112, 58, 47, 47>>,   \* 14: "http://"
       <<104, 116, 116, 112, 115, 58, 47, 47>>,   \* 15: "https://"
       <<84, 69, 76, 58>>,   \* 16: "TEL:"
       <<84, 69, 76, 65306>>,   \* 17: "TEL："
       <<30330, 21048, 24215>>,   \* 18: "発券店"
       <<25173, 36796, 31080>>,   \* 19: "払込票"
       <<25351, 23450, 24109>>,   \* 20: "指定席"
       <<33258, 30001, 24109>>,   \* 21: "自由席"
       <<24109>>,   \* 22: "席"
       <<25161>>,   \* 23: "扉"
       <<21015>>,   \* 24: "列"
       <<30058>>,   \* 25: "番"
       <<28040, 36027, 31246, 36796>>,   \* 26: "消費税込"
       <<29305, 23450, 12481, 12465, 12483, 12488>>,   \* 27: "特定チケット"
       <<36578, 22770>>,   \* 28: "転売"
       <<67, 78, 12503, 12524, 12452, 12460, 12452, 12489>>,   \* 29: "CNプレイガイド"
       <<12475, 12502, 12531, 45, 12452, 12524, 12502, 12531>> >>   \* 30: "セブン-イレブン"

\* re.IGNORECASE on the characters of TITLE_STOP_PAT: A-Z and a-z are
\* equal, and so is U+017F (long s) to s; its other characters have no case.
Fold(c) == IF c \in 65..90 THEN c + 32 ELSE IF c = 383 THEN 115 ELSE c

\* Alternative a of the pattern matches s at position k, ignoring case.
StopAltAt(a, s, k) == \A j \in 1..Len(a) : Fold(At(s, k + j - 1)) = Fold(a[j])

\* TITLE_STOP_PAT.search(ln) is not None
TitleStopSearch(ln) ==
    \E n \in 1..Len(TITLE_STOP_ALTS) : \E k \in 1..Len(ln) :
        StopAltAt(TITLE_STOP_ALTS[n], ln, k)

\* any(k in ln for k in TITLE_KEYWORDS)
HasTitleKeyword(ln) == \E n \in 1..Len(TITLE_KEYWORDS) : Contains(TITLE_KEYWORDS[n], ln)

\* re.sub(r'[^A-Za-z]', '', s)
RECURSIVE LatinLetters(_)
LatinLetters(s) ==
    IF s = <<>> THEN <<>>
    ELSE IF Head(s) \in (65..90) \cup (97..122)
         THEN <<Head(s)>> \o LatinLetters(Tail(s))
         ELSE LatinLetters(Tail(s))

\* The least number of letters of an all-caps line.
MinUpperLetters == 4

\* Faulty variant of is_upper_english (sensitivity of C7): the isupper()
\* test is missing.
is_upper_english_no_case(s) == Len(LatinLetters(s)) >= MinUpperLetters

\* _is_upper_english(s): len(letters) >= 4 and letters.isupper()
is_upper_english(s) ==
    LET letters == LatinLetters(s)
    IN  /\ Len(letters) >= MinUpperLetters
        /\ \A k \in 1..Len(letters) : letters[k] \in 65..90

\* What str.splitlines() breaks a text at ("\r\n" counts once).
LineBreaks == {10, 11, 12, 13, 28, 29, 30, 133, 8232, 8233}

\* text.splitlines() from position k on, cur being the line read so far.
RECURSIVE SplitLinesFrom(_, _, _)
SplitLinesFrom(t, k, cur) ==
    IF k > Len(t) THEN (IF cur = <<>> THEN <<>> ELSE <<cur>>)
    ELSE IF t[k] \in LineBreaks
         THEN <<cur>> \o SplitLinesFrom(
                  t, IF t[k] = 13 /\ At(t, k + 1) = 10 THEN k + 2 ELSE k + 1, <<>>)
         ELSE SplitLinesFrom(t, k + 1, Append(cur, t[k]))

splitlines(t) == SplitLinesFrom(t, 1, <<>>)

RECURSIVE LStrip(_)
LStrip(s) == IF s # <<>> /\ IsSpace(Head(s)) THEN LStrip(Tail(s)) ELSE s

RECURSIVE RStrip(_)
RStrip(s) ==
    IF s # <<>> /\ IsSpace(s[Len(s)]) THEN RStrip(SubSeq(s, 1, Len(s) - 1)) ELSE s

\* s.strip()
Strip(s) == RStrip(LStrip(s))

\* [ln.strip() for ln in text.splitlines() if ln.strip()]
RECURSIVE StripNonEmpty(_)
StripNonEmpty(ls) ==
    IF ls = <<>> THEN <<>>
    ELSE IF Strip(Head(ls)) # <<>>
         THEN <<Strip(Head(ls))>> \o StripNonEmpty(Tail(ls))
         ELSE StripNonEmpty(Tail(ls))

TitleLines(t) == StripNonEmpty(splitlines(t))

\* The first loop: the 0-based index of the first line with a keyword at
\* or after line k (0-based), or -1.
RECURSIVE FindAnchorFrom(_, _)
FindAnchorFrom(ls, k) ==
    IF k >= Len(ls) THEN -1
    ELSE IF HasTitleKeyword(ls[k + 1]) THEN k ELSE FindAnchorFrom(ls, k + 1)

\* Faulty variant of FindAnchor (sensitivity of C10): keyword lines that
\* match the stop-pattern are passed over when looking for the anchor.
RECURSIVE FindAnchorNoStopFrom(_, _)
FindAnchorNoStopFrom(ls, k) ==
    IF k >= Len(ls) THEN -1
    ELSE IF HasTitleKeyword(ls[k + 1]) /\ ~TitleStopSearch(ls[k + 1]) THEN k
    ELSE FindAnchorNoStopFrom(ls, k + 1)

FindAnchorNoStop(ls) == FindAnchorNoStopFrom(ls, 0)

FindAnchor(ls) == FindAnchorFrom(ls, 0)

\* The fallback loop: the first all-caps Latin line, as it stands in
\* lines, or None.
RECURSIVE FirstUpperLine(_)
FirstUpperLine(ls) ==
    IF ls = <<>> THEN None
    ELSE IF is_upper_english(Head(ls)) THEN Head(ls) ELSE FirstUpperLine(Tail(ls))

\* The most lines the walk accepts.
MaxTitleParts == 3

\* Faulty variant of TitleCapReached (sensitivity of C3): > for >=.
TitleCapOffByOne(ps) == Len(ps) > MaxTitleParts

\* len(parts) >= 3
TitleCapReached(ps) == Len(ps) >= MaxTitleParts

\* A line the walk accepts: a keyword, a Japanese quotation bracket, or an
\* all-caps Latin line.
TitleAccepts(ln) ==
    \/ HasTitleKeyword(ln)
    \/ \E k \in 1..Len(ln) : ln[k] \in {12302, 12303}
    \/ is_upper_english(ln)

\* Faulty variant of TitleWalkStep (sensitivity of C4): the acceptance
\* test comes before the stop-pattern test.
TitleWalkStepAcceptFirst(ls, st) ==
    IF ~(st.i < Len(ls)) THEN [st EXCEPT !.walking = FALSE]
    ELSE LET ln == ls[st.i + 1]
         IN  IF TitleAccepts(ln)
             THEN LET ps == Append(st.parts, ln)
                  IN  IF TitleCapReached(ps)
                      THEN [i |-> st.i, parts |-> ps, walking |-> FALSE]
                      ELSE [i |-> st.i + 1, parts |-> ps, walking |-> TRUE]
             ELSE [st EXCEPT !.walking = FALSE]

\* One iteration of while i < n, from the loop state st = (i, parts):
\* walking is FALSE once the loop is left.
TitleWalkStep(ls, st) ==
    IF ~(st.i < Len(ls)) THEN [st EXCEPT !.walking = FALSE]
    ELSE LET ln == ls[st.i + 1]
         IN  IF TitleStopSearch(ln) THEN [st EXCEPT !.walking = FALSE]
             ELSE IF TitleAccepts(ln)
                  THEN LET ps == Append(st.parts, ln)
                       IN  IF TitleCapReached(ps)
                           THEN [i |-> st.i, parts |-> ps, walking |-> FALSE]
                           ELSE [i |-> st.i + 1, parts |-> ps, walking |-> TRUE]
                  ELSE [st EXCEPT !.walking = FALSE]

RECURSIVE TitleWalkRun(_, _)
TitleWalkRun(ls, st) ==
    IF st.walking THEN TitleWalkRun(ls, TitleWalkStep(ls, st)) ELSE st.parts

\* " ".join(parts)
RECURSIVE JoinSpace(_)
JoinSpace(ps) ==
    IF ps = <<>> THEN <<>>
    ELSE IF Len(ps) = 1 THEN ps[1]
    ELSE ps[1] \o <<32>> \o JoinSpace(Tail(ps))

\* re.sub(r"\s+", " ", s): every maximal run of whitespace becomes " ".
RECURSIVE CollapseSpaces(_)
CollapseSpaces(s) ==
    IF s = <<>> THEN <<>>
    ELSE IF IsSpace(Head(s)) THEN <<32>> \o CollapseSpaces(LStrip(s))
    ELSE <<Head(s)>> \o CollapseSpaces(Tail(s))

\* The tail of parse_title: join, strip, collapse, and "" becomes None.
TitleOfParts(ps) ==
    LET joined == CollapseSpaces(Strip(JoinSpace(ps)))
    IN  IF joined = <<>> THEN None ELSE joined

\* parse_title(text)
parse_title(t) ==
    LET ls == TitleLines(t)
        st == FindAnchor(ls)
    IN  IF st = -1 THEN FirstUpperLine(ls)
        ELSE TitleOfParts(
                 TitleWalkRun(ls, [i |-> st, parts |-> <<>>, walking |-> TRUE]))

TitleFrags ==
    << <<12524, 12539, 12511, 12476, 12521, 12502, 12523, 32, 87, 79, 82, 76, 68, 32, 84, 79, 85, 82, 10>>,
           \* "レ・ミゼラブル WORLD TOUR\n"
       <<12302, 76, 69, 83, 32, 77, 73, 83, 69, 82, 65, 66, 76, 69, 83, 12303, 10>>,
           \* "『LES MISERABLES』\n"
       <<20027, 20652, 65306, 12295, 12295, 10>>,
           \* "主催：〇〇\n"
       <<69, 88, 80, 79, 32, 32, 50, 53, 10>>,
           \* "EXPO  25\n"
       <<20844, 28436, 32, 116, 101, 108, 58, 48, 51, 10>>,
           \* "公演 tel:03\n"
       <<32, 12521, 12452, 12502, 32, 9, 32, 50, 48, 50, 53, 32, 13, 10>>,
           \* " ライブ \t 2025 \r\n"
       <<65, 98, 99, 100, 32, 49, 50, 10>>,
           \* "Abcd 12\n"
       <<12302, 22799, 12303, 10>> >>
           \* "『夏』\n"

\* How many fragments (lines) a text is made of, at most.
MaxTitleFrags == 4

TitleTexts == TextsOf(TitleFrags, MaxTitleFrags)

InitTitle ==
    /\ text \in TitleTexts
    /\ pc = "title"
    /\ lines = <<>> /\ start = -1 /\ i = 0 /\ parts = <<>> /\ title = None
    /\ rgx = 1 /\ pos = 1 /\ out = <<>> /\ event_date = None
    /\ vi = 1 /\ venue = None
    /\ request = NoRequest /\ response = NoResponse

\* No line holds a keyword: the first all-caps Latin line, or None.
TitleFallback ==
    /\ pc = "title"
    /\ \E ls \in {TitleLines(text)} :
         /\ FindAnchor(ls) = -1
         /\ lines' = ls
         /\ start' = -1
         /\ title' = FirstUpperLine(ls)
    /\ pc' = "done"
    /\ UNCHANGED <<text, i, parts, dateVars, venueVars, apiVars>>

\* An anchor line exists: parts = [], i = start, and the walk begins.
TitleAnchor ==
    /\ pc = "title"
    /\ \E ls \in {TitleLines(text)} : \E st \in {FindAnchor(ls)} :
         /\ st # -1
         /\ lines' = ls
         /\ start' = st
         /\ i' = st
    /\ parts' = <<>>
    /\ pc' = "walk"
    /\ UNCHANGED <<text, title, dateVars, venueVars, apiVars>>

WalkState == [i |-> i, parts |-> parts, walking |-> TRUE]

\* One iteration of the while loop (or its condition failing).
TitleWalk ==
    /\ pc = "walk"
    /\ \E st \in {TitleWalkStep(lines, WalkState)} :
           /\ i' = st.i
           /\ parts' = st.parts
           /\ pc' = IF st.walking THEN "walk" ELSE "join"
    /\ UNCHANGED <<text, lines, start, title, dateVars, venueVars, apiVars>>

\* After the loop: the title is assembled and returned.
TitleJoin ==
    /\ pc = "join"
    /\ title' = TitleOfParts(parts)
    /\ pc' = "done"
    /\ UNCHANGED <<text, lines, start, i, parts, dateVars, venueVars, apiVars>>

NextTitle == TitleFallback \/ TitleAnchor \/ TitleWalk \/ TitleJoin

SpecTitle == InitTitle /\ [][NextTitle]_vars


---------------------------------------------------------------------------
(* /api/ocr *)

\* "[No OCR result - Vision client not available]"
NoOcrPlaceholder ==
    <<91, 78, 111, 32, 79, 67, 82, 32, 114, 101, 115, 117, 108, 116, 32, 45,
      32, 86, 105, 115, 105, 111, 110, 32, 99, 108, 105, 101, 110, 116, 32, 110,
      111, 116, 32, 97, 118, 97, 105, 108, 97, 98, 108, 101, 93>>

\* Faulty variant of extract_fields (sensitivity of C8): venue and title
\* are looked for only when a date was found.
extract_fields_gated(t) ==
    IF parse_datetime(t) = None
    THEN [event_date |-> None, venue |-> None, title |-> None]
    ELSE [event_date |-> parse_datetime(t), venue |-> parse_venue(t),
          title |-> parse_title(t)]

\* fields = parse_datetime(raw_text); fields["venue"] = parse_venue(raw_text);
\* fields["title"] = parse_title(raw_text)
extract_fields(t) ==
    [event_date |-> parse_datetime(t), venue |-> parse_venue(t), title |-> parse_title(t)]

Raised(msg) == [ok |-> FALSE, error |-> msg, text |-> <<>>]
Returned(t) == [ok |-> TRUE, error |-> "", text |-> t]

\* load_fake_text(): the file's content, or "" when FAKE_TEXT_FILE is unset
\* or no file.
load_fake_text(req) == IF req.file = None THEN <<>> ELSE req.file

\* read_image_bytes(request): the bytes are read, or it raises.
read_image_bytes(req) ==
    CASE req.image = "none" -> Raised("No image provided")
      [] req.image = "bad_base64" -> Raised("Incorrect padding")
      [] OTHER -> Returned(<<>>)

\* run_vision_ocr(img_bytes, hints): the text of the image; "" when the
\* client is not available; raises when the library is missing or the
\* backend reports an error.
run_vision_ocr(req) ==
    CASE req.backend = "no_library" -> Raised("No module named 'google'")
      [] req.backend = "no_client" -> Returned(<<>>)
      [] req.backend = "api_error" -> Raised("Vision API error")
      [] OTHER -> Returned(req.ocr_text)

\* The try block up to the parsing: raw_text, or the exception raised.
ObtainRawText(req) ==
    IF req.mode = "fake"
    THEN IF load_fake_text(req) = <<>>
         THEN Raised("FAKE_TEXT_FILE not found or empty")
         ELSE Returned(load_fake_text(req))
    ELSE IF ~read_image_bytes(req).ok THEN read_image_bytes(req)
    ELSE IF ~run_vision_ocr(req).ok THEN run_vision_ocr(req)
    ELSE IF run_vision_ocr(req).text = <<>> THEN Returned(NoOcrPlaceholder)
    ELSE run_vision_ocr(req)

\* The body and status api_ocr returns for a request.
api_ocr(req) ==
    LET raw == ObtainRawText(req)
    IN  IF raw.ok
        THEN [status |-> 200, ok |-> TRUE, raw_text |-> raw.text,
              fields |-> extract_fields(raw.text)]
        ELSE [status |-> 400, ok |-> FALSE, error |-> raw.error]

ApiFrags ==
    << <<50, 48, 50, 53, 24180, 56, 26376, 49, 48, 26085, 10>>,
           \* "2025年8月10日\n"
       <<50, 48, 50, 53, 47, 55, 47, 49, 10>>,
           \* "2025/7/1\n"
       <<26085, 26412, 27494, 36947, 39208, 10>>,
           \* "日本武道館\n"
       <<12524, 12539, 12511, 12476, 12521, 12502, 12523, 32, 87, 79, 82, 76, 68, 32, 84, 79, 85, 82, 10>>,
           \* "レ・ミゼラブル WORLD TOUR\n"
       <<97, 98, 99, 32, 49, 50, 10>> >>
           \* "abc 12\n"

\* How many fragments (lines) a text is made of, at most.
MaxApiFrags == 3

ApiTexts == TextsOf(ApiFrags, MaxApiFrags)

\* USE_FAKE_TEXT requests (the file missing, empty or with a text), and
\* image requests with each payload and each behaviour of the backend.
Requests ==
    { [mode |-> "fake", file |-> f, image |-> "none", backend |-> "ok", ocr_text |-> <<>>] :
        f \in ApiTexts \cup {None} }
    \cup
    { [mode |-> "vision", file |-> None, image |-> im, backend |-> b, ocr_text |-> <<>>] :
        im \in {"multipart", "base64", "none", "bad_base64"},
        b \in {"no_library", "no_client", "api_error"} }
    \cup
    { [mode |-> "vision", file |-> None, image |-> im, backend |-> "ok", ocr_text |-> t] :
        im \in {"multipart", "base64", "none", "bad_base64"}, t \in ApiTexts }

Init ==
    /\ request \in Requests
    /\ response = NoResponse
    /\ text = <<>>
    /\ pc = "request"
    /\ rgx = 1 /\ pos = 1 /\ out = <<>> /\ event_date = None
    /\ vi = 1 /\ venue = None
    /\ lines = <<>> /\ start = -1 /\ i = 0 /\ parts = <<>> /\ title = None

\* The raw text was obtained: the three extractors scan it and the record
\* is returned with it.
ApiOcrExtract ==
    /\ pc = "request"
    /\ ObtainRawText(request).ok
    /\ text' = ObtainRawText(request).text
    /\ \E resp \in {api_ocr(request)} :
         /\ response' = resp
         /\ event_date' = resp.fields.event_date
         /\ venue' = resp.fields.venue
         /\ title' = resp.fields.title
    /\ pc' = "done"
    /\ UNCHANGED <<request, rgx, pos, out, vi, lines, start, i, parts>>

\* An exception reached the handler's except clause.
ApiOcrError ==
    /\ pc = "request"
    /\ ~ObtainRawText(request).ok
    /\ response' = api_ocr(request)
    /\ pc' = "done"
    /\ UNCHANGED <<request, text, dateVars, venueVars, titleVars>>

Next == ApiOcrExtract \/ ApiOcrError

Spec == Init /\ [][Next]_vars


---------------------------------------------------------------------------
(* Properties of the date extractor (checked under SpecDate) *)

\* Every match finditer yields for pattern r, scanning from position p.
RECURSIVE MatchesFrom(_, _, _)
MatchesFrom(r, t, p) ==
    LET m == FindFrom(r, t, p)
    IN  IF m.ok THEN {m} \cup MatchesFrom(r, t, m.end) ELSE {}

MatchesOf(r, t) == MatchesFrom(r, t, 1)

AllMatches(t) == UNION { MatchesOf(r, t) : r \in 1..NumDateRegexes }

\* The (year, month, day) the groups of a match spell.
GroupDate(m) == <<MatchYear(m), DigitsValue(m.m), DigitsValue(m.d)>>

MonthLengths == <<31, 28, 31, 30, 31, 30, 31, 31, 30, 31, 30, 31>>

\* The triple is a date of the (proleptic Gregorian) calendar.
IsCalendarDate(dt) ==
    /\ dt[1] \in 1..9999
    /\ dt[2] \in 1..12
    /\ dt[3] >= 1
    /\ dt[3] <= MonthLengths[dt[2]]
                  + (IF dt[2] = 2 /\ dt[1] % 4 = 0 /\ (dt[1] % 100 # 0 \/ dt[1] % 400 = 0)
                     THEN 1 ELSE 0)

\* The calendar dates matched anywhere in the text by any pattern.
ValidDates(t) == { GroupDate(m) : m \in { x \in AllMatches(t) : IsCalendarDate(GroupDate(x)) } }

\* C1: parse_datetime returns the latest of all validated dates matched by
\* any of the three patterns anywhere in the text, whatever pattern and
\* position each has; it returns None exactly when there is no such date.
C1_EventDateIsLatest ==
    pc = "done" =>
        LET V == ValidDates(text)
        IN  /\ (V = {}) <=> (event_date = None)
            /\ V # {} =>
                 \E d \in V : /\ event_date = Strftime(d)
                              /\ \A e \in V : ~DateLess(d, e)

\* C1 witness: two valid dates from different patterns, the later one
\* standing earlier in the text, and the later one returned.
C1_Witness ==
    /\ pc = "done"
    /\ \E r1, r2 \in 1..NumDateRegexes :
         \E m1 \in MatchesOf(r1, text), m2 \in MatchesOf(r2, text) :
            /\ r1 # r2
            /\ IsCalendarDate(GroupDate(m1)) /\ IsCalendarDate(GroupDate(m2))
            /\ DateLess(GroupDate(m1), GroupDate(m2))
            /\ m2.start < m1.start
            /\ event_date = Strftime(GroupDate(m2))

OutEntry(m) == [date |-> GroupDate(m), index |-> m.start - 1]

\* C9: a match whose groups are no calendar date adds no candidate (and no
\* corrected one): every collected entry is exactly a valid match; the
\* scan goes on, so at the end every valid match of every pattern is
\* collected and a date is returned whenever one exists.
C9_InvalidMatchSkipped ==
    /\ \A k \in 1..Len(out) :
         \E m \in AllMatches(text) :
            IsCalendarDate(GroupDate(m)) /\ out[k] = OutEntry(m)
    /\ pc = "done" =>
         /\ \A m \in AllMatches(text) :
              IsCalendarDate(GroupDate(m)) => \E k \in 1..Len(out) : out[k] = OutEntry(m)
         /\ ValidDates(text) # {} => event_date # None

\* C9 witness: an invalid match is followed, later in the scan, by a valid
\* one, whose date is the one returned.
C9_Witness ==
    /\ pc = "done"
    /\ \E r1, r2 \in 1..NumDateRegexes :
         \E m1 \in MatchesOf(r1, text), m2 \in MatchesOf(r2, text) :
            /\ ~IsCalendarDate(GroupDate(m1))
            /\ IsCalendarDate(GroupDate(m2))
            /\ r1 < r2 \/ (r1 = r2 /\ m1.start < m2.start)
            /\ event_date = Strftime(GroupDate(m2))

---------------------------------------------------------------------------
(* Properties of the venue matcher (checked under SpecVenue) *)

OccursAt(v, t, k) == \A j \in 1..Len(v) : At(t, k + j - 1) = v[j]

Occurs(v, t) == \E k \in 1..Len(t) : OccursAt(v, t, k)

FirstPos(v, t) == CHOOSE k \in 1..Len(t) :
    OccursAt(v, t, k) /\ \A h \in 1..(k - 1) : ~OccursAt(v, t, h)

\* C2: parse_venue returns the catalog entry of least index that occurs in
\* the text, verbatim, and None exactly when no entry occurs.
C2_FirstCatalogVenue ==
    pc = "done" =>
        LET hits == { n \in 1..Len(VENUE_WORDS) : Occurs(VENUE_WORDS[n], text) }
        IN  /\ (hits = {}) <=> (venue = None)
            /\ hits # {} =>
                 \E n \in hits : venue = VENUE_WORDS[n] /\ \A h \in hits : n <= h

\* C2 witness: two catalog venues occur, the one later in the catalog first
\* in the text, and the one earlier in the catalog is returned.
C2_Witness ==
    /\ pc = "done"
    /\ \E a, b \in 1..Len(VENUE_WORDS) :
         /\ a < b
         /\ Occurs(VENUE_WORDS[a], text) /\ Occurs(VENUE_WORDS[b], text)
         /\ FirstPos(VENUE_WORDS[b], text) < FirstPos(VENUE_WORDS[a], text)
         /\ venue = VENUE_WORDS[a]

---------------------------------------------------------------------------
(* Properties of the title extractor (checked under SpecTitle) *)

\* The 1-based indices of the lines that hold a title keyword.
KeywordLines == { k \in 1..Len(lines) : HasTitleKeyword(lines[k]) }

\* The first line that holds a title keyword (1-based), when there is one.
AnchorLine == CHOOSE k \in KeywordLines : \A h \in KeywordLines : k <= h

\* The 1-based indices of the lines, from the anchor on, that match the
\* stop-pattern.
StopLines == { k \in AnchorLine..Len(lines) : TitleStopSearch(lines[k]) }

\* The characters of s that are no whitespace.
RECURSIVE NonSpace(_)
NonSpace(s) ==
    IF s = <<>> THEN <<>>
    ELSE IF IsSpace(Head(s)) THEN NonSpace(Tail(s))
    ELSE <<Head(s)>> \o NonSpace(Tail(s))

RECURSIVE Flatten(_)
Flatten(ps) == IF ps = <<>> THEN <<>> ELSE Head(ps) \o Flatten(Tail(ps))

\* C3: in every state of the walk at most 3 lines are accepted, and the
\* walk is over as soon as the third is.
C3_AtMostThreeLines ==
    /\ Len(parts) <= 3
    /\ Len(parts) = 3 => pc # "walk"

\* C3 witness: the walk ended with 3 lines accepted although the next line
\* would qualify as well.
C3_Witness ==
    /\ pc = "done" /\ Len(parts) = 3
    /\ i + 2 <= Len(lines)
    /\ ~TitleStopSearch(lines[i + 2])
    /\ TitleAccepts(lines[i + 2])

\* C4: with an anchor line, the title is made of the consecutive lines
\* from the anchor on, in text order, all of them before the first line
\* that matches the stop-pattern (case-insensitively): that line and
\* every later one are left out, whatever they hold.
C4_StopsAtStopLine ==
    (pc = "done" /\ KeywordLines # {}) =>
        /\ parts = SubSeq(lines, AnchorLine, AnchorLine + Len(parts) - 1)
        /\ \A s \in StopLines : AnchorLine + Len(parts) - 1 < s
        /\ parts = <<>> => title = None
        /\ parts # <<>> => title # None /\ NonSpace(title) = NonSpace(Flatten(parts))

\* C4 witness: the walk reached a stop line that matches only when case is
\* ignored ("tel:") and holds a title keyword itself; a later line would
\* qualify; the title is what was accepted before the stop line.
C4_Witness ==
    /\ pc = "done" /\ KeywordLines # {} /\ title # None
    /\ \E s \in StopLines :
         /\ s = AnchorLine + Len(parts)
         /\ HasTitleKeyword(lines[s])
         /\ Contains(<<116, 101, 108, 58>>, lines[s])
         /\ \E k \in (s + 1)..Len(lines) :
              TitleAccepts(lines[k]) /\ ~TitleStopSearch(lines[k])

\* The 1-based indices of the all-caps Latin lines: at least 4 letters of
\* A-Z, a-z, none of them lower case.
AllCapsLines ==
    { k \in 1..Len(lines) :
        /\ Cardinality({ j \in 1..Len(lines[k]) :
                           lines[k][j] \in (65..90) \cup (97..122) }) >= 4
        /\ \A j \in 1..Len(lines[k]) : lines[k][j] \notin 97..122 }

\* C7: when no line holds a title keyword, parse_title returns the first
\* all-caps Latin line, and None when there is none.
C7_FallbackFirstAllCaps ==
    (pc = "done" /\ KeywordLines = {}) =>
        /\ lines = TitleLines(text)
        /\ AllCapsLines = {} => title = None
        /\ AllCapsLines # {} =>
             \E k \in AllCapsLines : title = lines[k] /\ \A h \in AllCapsLines : k <= h

\* C7 witness: no keyword line, and the line returned is not the first line
\* of the text.
C7_Witness ==
    /\ pc = "done" /\ KeywordLines = {}
    /\ \E k \in AllCapsLines : k > 1 /\ title = lines[k]

\* C10: the fallback is taken only when no line holds a keyword; when the
\* anchor line itself matches the stop-pattern, nothing is accepted and
\* parse_title returns None.
C10_StopAtAnchorGivesNone ==
    (pc = "done" /\ KeywordLines # {}) =>
        /\ lines = TitleLines(text)
        /\ start = AnchorLine - 1
        /\ parts = <<>> => title = None
        /\ TitleStopSearch(lines[AnchorLine]) => parts = <<>> /\ title = None

\* C10 witness: the anchor line matches the stop-pattern, the text holds
\* an all-caps Latin line and a later keyword line that is no stop line,
\* and None was returned.
C10_Witness ==
    /\ pc = "done" /\ KeywordLines # {}
    /\ TitleStopSearch(lines[AnchorLine])
    /\ AllCapsLines # {}
    /\ \E k \in KeywordLines : k > AnchorLine /\ ~TitleStopSearch(lines[k])
    /\ title = None

\* C5: a returned title is non-empty, has no whitespace at either end and
\* no two whitespace characters in a row, on the anchored path and on the
\* all-caps fallback alike.
C5_TitleNormalized ==
    (pc = "done" /\ title # None) =>
        /\ title # <<>>
        /\ ~IsSpace(title[1]) /\ ~IsSpace(title[Len(title)])
        /\ \A k \in 1..(Len(title) - 1) : ~(IsSpace(title[k]) /\ IsSpace(title[k + 1]))

---------------------------------------------------------------------------
(* Properties of /api/ocr (checked under Spec) *)

\* The raw text could not be obtained at all: the fake-text file is missing
\* or empty, the image payload is missing or bad, or the OCR backend is
\* unavailable or reports an error.
UpstreamFailed(req) ==
    IF req.mode = "fake" THEN req.file = None \/ req.file = <<>>
    ELSE \/ req.image \in {"none", "bad_base64"}
         \/ req.backend \in {"no_library", "no_client", "api_error"}

\* C6: an upstream failure is answered ok=false with an error message,
\* never ok=true with null fields as when extraction ran and found nothing.
C6_UpstreamFailureReported ==
    (response # NoResponse /\ UpstreamFailed(request)) =>
        /\ response.ok = FALSE
        /\ response.status = 400
        /\ response.error # ""

\* C8: for every raw text obtained the handler answers ok=true with
\* exactly the three fields, each what its extractor returns for that
\* text, and with the text scanned, unchanged, as raw_text.
C8_ExtractionAlwaysSucceeds ==
    (response # NoResponse /\ ObtainRawText(request).ok) =>
        /\ response.ok = TRUE
        /\ response.status = 200
        /\ response.raw_text = ObtainRawText(request).text
        /\ response.raw_text = text
        /\ DOMAIN response.fields = {"event_date", "venue", "title"}
        /\ response.fields.event_date = parse_datetime(text)
        /\ response.fields.venue = parse_venue(text)
        /\ response.fields.title = parse_title(text)

\* C8 witness: a text with a venue and a title and no date: the date is
\* null and the other two fields are returned all the same.
C8_Witness ==
    /\ response # NoResponse /\ ObtainRawText(request).ok
    /\ response.ok
    /\ response.fields.event_date = None
    /\ response.fields.venue # None
    /\ response.fields.title # None

=============================================================================
